---- MODULE Spec2Model ----
(***************************************************************************)
(* The interview page of the voice-bot front end (InterviewPage), the API  *)
(* client it calls (services/api), and the Interview Engine the API talks  *)
(* to.  The page and the API client are translated from the JavaScript     *)
(* sources.  The engine runs on the server and its code is not part of the *)
(* front-end sources; it is modelled from section 4.5 / 5 / 7 of the       *)
(* design document.                                                        *)
(***************************************************************************)
EXTENDS Integers, Sequences, FiniteSets, TLC

----------------------------------------------------------------------------
(* Bounds of the model *)

\* largest max_questions a session is configured with
MaxQuestions == 3
\* requests the page may dispatch in one behaviour (start + submit)
MaxCalls == 4
\* endSession calls in one behaviour
MaxEndCalls == 2
\* files selected on the upload page in one behaviour
MaxSelections == 3
\* longest document given to the chunker, the scenario document apart
MaxTextLen == 4
\* largest chunk size tried on those documents
MaxChunkSize == 3
\* most chunks in an index
MaxIndexed == 3
\* largest k of a query
MaxK == 3
\* most vocabulary words in a text given to deriveQuestions
MaxWords == 8
\* recognitions started on the planned-question page
MaxRecognitions == 2
\* results one recognition delivers before it is stopped
MaxHeard == 1

(* Program constants *)

\* useState(7): totalQuestions before the first start response
DefaultTotalQuestions == 7
\* generation calls one turn may make: the first and one regeneration
MaxGenerationCalls == 2
\* chunk(text, size=500, overlap=100)
DefaultChunkSize == 500
DefaultChunkOverlap == 100
\* text.slice(0, 600): preview of a new extraction
PreviewLength == 600
\* extractedText.slice(0, 400): preview of a saved extraction
SavedPreviewLength == 400
\* snippet.slice(0, 420): length of the summary
SummaryLength == 420

----------------------------------------------------------------------------
(* Values *)

Null == "null"

Sids == {"s1"}

\* no request
NoRequest == [epoch |-> 0, op |-> "none", sid |-> Null, answer |-> <<>>]

\* no pending call of the page
NoCall == [history |-> <<>>, questionNumber |-> -1]

\* answer texts typed or dictated: empty, whitespace only, and with a letter
AnswerTexts == {<<>>, <<" ">>, <<" ", "a">>}

\* texts the Generation Provider may return: two that differ only in case and
\* surrounding whitespace, and a different one
QuestionTexts == {<<"A">>, <<"a", " ">>, <<"b">>}

\* no text was spoken yet
NoUtterance == <<>>
NoQuery == [vector |-> <<>>, k |-> 0]
NotDerived == "none"

IsSpace(c) == c = " "

RECURSIVE TrimStart(_)
TrimStart(s) ==
  IF s # <<>> /\ IsSpace(Head(s)) THEN TrimStart(Tail(s)) ELSE s

RECURSIVE TrimEnd(_)
TrimEnd(s) ==
  IF s # <<>> /\ IsSpace(s[Len(s)]) THEN TrimEnd(SubSeq(s, 1, Len(s) - 1)) ELSE s

\* String.prototype.trim
Trim(s) == TrimEnd(TrimStart(s))

\* lower case of a character
ToLower(c) == IF c = "A" THEN "a" ELSE IF c = "B" THEN "b" ELSE c

\* the normalized text of a question: lower case, surrounding whitespace removed
Normalize(text) == Trim([i \in 1..Len(text) |-> ToLower(text[i])])

RECURSIVE CountType(_, _)
CountType(h, t) ==
  IF h = <<>> THEN 0
  ELSE (IF Head(h).type = t THEN 1 ELSE 0) + CountType(Tail(h), t)

----------------------------------------------------------------------------
VARIABLES
  \* browser
  route,                \* current route of the BrowserRouter
  localStorage,         \* localStorage.getItem('sessionId'), Null when absent
  mountEpoch,           \* number of InterviewPage instances that started an interview
  utterance,            \* text last given to speechSynthesis.speak
  \* InterviewPage state (useState)
  sessionId,
  questionNumber,
  totalQuestions,
  userAnswer,
  loading,
  error,
  isComplete,
  conversationHistory,
  \* HTTP
  requests,             \* requests sent and not yet taken up by the engine
  nCalls,               \* requests dispatched by the page so far
  endResults,           \* what each endSession call returned
  \* Interview Engine
  sessions,             \* session id -> Session
  busy,                 \* session id -> request whose generation call is in flight
  genCalls,             \* session id -> generation calls made for the turn in flight
  \* observation
  atCall,               \* the page's history and question number when its
                        \* pending request was made, NoCall when none is pending
  allSucceeded,         \* no call of the page was rejected so far
  endedByUser,          \* session ids whose interview was ended with End Interview
  \* UploadJDPage state (useState)
  fileName,
  fileSize,
  preview,
  uploadError,          \* the page's error state
  extracting,
  \* JobProvider state (useState)
  fileMeta,
  extractedText,
  \* file extractions
  extractions,          \* calls of handleFileObject waiting for readFile
  nSelections,          \* files selected so far
  selectedFile,         \* observation: the file selected last, Null when none
                        \* was selected or Remove was clicked since
  \* Chunker
  document,             \* extracted text given to chunk
  chunk_size,
  chunk_overlap,
  chunkerState,         \* "idle", "done" or "EmptyInputError"
  chunks,               \* sequence of Chunk produced for the document
  \* Embedding Index
  indexState,           \* "empty", "built" or "EmbeddingUnavailableError"
  index,                \* chunk id -> Vector
  lastQuery,            \* the (vector, k) of the last query, NoQuery before
  retrieval,            \* Retrieval Result of the last query
  \* deriveQuestions
  deriveText,           \* text given to deriveQuestions
  derived,              \* the questions it returned, NotDerived before the call
  \* InterviewPage with planned questions (useState)
  qIndex,
  transcript,
  answers,
  listening,
  \* browser, for the planned-question page
  recognition,          \* SpeechRecognition: its state and how often it was started
  heard,                \* what the current recognition has transcribed so far
  feedbackState         \* location.state given to /feedback, Null when none

pageVars == <<sessionId, questionNumber, totalQuestions, userAnswer, loading,
              error, isComplete, conversationHistory>>
browserVars == <<route, localStorage, mountEpoch>>
netVars == <<requests, nCalls, endResults>>
engineVars == <<sessions, busy, genCalls>>
ghostVars == <<atCall, allSucceeded>>
\* the interview page, its API client and the engine
interviewVars == <<browserVars, pageVars, netVars, engineVars, ghostVars, utterance,
                   endedByUser>>
\* the interview model without the route
interviewState == <<localStorage, mountEpoch, pageVars, netVars, engineVars,
                    ghostVars, utterance, endedByUser>>
uploadPageVars == <<fileName, fileSize, preview, uploadError, extracting>>
jobVars == <<fileMeta, extractedText>>
uploadVars == <<uploadPageVars, jobVars, extractions, nSelections, selectedFile>>
chunkerVars == <<document, chunk_size, chunk_overlap, chunkerState, chunks>>
indexVars == <<indexState, index, lastQuery, retrieval>>
ragVars == <<chunkerVars, indexVars>>
deriveVars == <<deriveText, derived>>
plannedPageVars == <<qIndex, transcript, answers, listening>>
plannedVars == <<plannedPageVars, recognition, heard, feedbackState>>
\* what the interview page, its API client and the engine never touch
outsideInterview == <<uploadVars, ragVars, deriveVars, plannedVars>>
\* what the upload page and the job context never touch, the route apart
outsideUpload == <<interviewState, ragVars, deriveVars, plannedVars>>
vars == <<interviewVars, uploadVars, ragVars, deriveVars, plannedVars>>

Mounted == route = "/interview"

----------------------------------------------------------------------------
(* Interview Engine: Session *)

NewSession(n) ==
  [status |-> "INIT", history |-> <<>>, question_count |-> 0, max_questions |-> n]

\* turns numbered within their role: the n-th question and the n-th answer
\* both get ordinal n
Turn_OrdinalByRole(h, role, text) ==
  [ordinal |-> CountType(h, role) + 1, type |-> role, text |-> text]

Turn(h, role, text) == [ordinal |-> Len(h) + 1, type |-> role, text |-> text]

ErrorResponse(req, detail) ==
  [epoch |-> req.epoch, op |-> req.op, ok |-> FALSE, data |-> [detail |-> detail]]

OkResponse(req, data) ==
  [epoch |-> req.epoch, op |-> req.op, ok |-> TRUE, data |-> data]

----------------------------------------------------------------------------
\* JobProvider and UploadJDPage before any file was selected
InitUploadPage ==
  /\ fileName = Null
  /\ fileSize = Null
  /\ preview = <<>>
  /\ uploadError = Null
  /\ extracting = FALSE
  /\ fileMeta = [name |-> Null, size |-> 0]
  /\ extractedText = <<>>
  /\ extractions = {}
  /\ nSelections = 0
  /\ selectedFile = Null

\* the interview page, the network and the engine before the page is entered
InitInterviewState ==
  /\ localStorage \in Sids \cup {Null}
  /\ mountEpoch = 0
  /\ sessionId = Null
  /\ questionNumber = 0
  /\ totalQuestions = DefaultTotalQuestions
  /\ userAnswer = <<>>
  /\ loading = FALSE
  /\ error = Null
  /\ isComplete = FALSE
  /\ conversationHistory = <<>>
  /\ requests = {}
  /\ nCalls = 0
  /\ endResults = <<>>
  /\ \E n \in 1..MaxQuestions : sessions = [s \in Sids |-> NewSession(n)]
  /\ busy = [s \in Sids |-> NoRequest]
  /\ genCalls = [s \in Sids |-> 0]
  /\ atCall = NoCall
  /\ allSucceeded = TRUE
  /\ utterance = NoUtterance
  /\ endedByUser = {}

InitInterview == route = "/" /\ InitInterviewState

\* no document was chunked and no index was built
InitRetrieval ==
  /\ document = <<>>
  /\ chunk_size = DefaultChunkSize
  /\ chunk_overlap = DefaultChunkOverlap
  /\ chunkerState = "idle"
  /\ chunks = <<>>
  /\ indexState = "empty"
  /\ index = <<>>
  /\ lastQuery = NoQuery
  /\ retrieval = <<>>

\* deriveQuestions was not called
InitDerive ==
  /\ deriveText = <<>>
  /\ derived = NotDerived

\* the planned-question page as its useState defaults, nothing recognised
InitPlannedPage ==
  /\ qIndex = 0
  /\ transcript = <<>>
  /\ answers = <<>>
  /\ listening = FALSE
  /\ recognition = [state |-> "idle", n |-> 0]
  /\ heard = <<>>
  /\ feedbackState = Null

Init == InitInterview /\ InitUploadPage /\ InitRetrieval /\ InitDerive /\ InitPlannedPage

----------------------------------------------------------------------------
(* API client: services/api *)

\* startInterview(sessionId): POST /api/start-interview {session_id}
startInterview(sid) ==
  [epoch |-> mountEpoch + 1, op |-> "start", sid |-> sid, answer |-> <<>>]

\* submitAnswer(sessionId, answer): POST /api/next-question {session_id, user_answer}
submitAnswer(sid, answer) ==
  [epoch |-> mountEpoch, op |-> "submit", sid |-> sid, answer |-> answer]

----------------------------------------------------------------------------
(* InterviewPage *)

\* the component's state right after a mount, before its effect has run
FreshPage ==
  /\ sessionId' = Null
  /\ questionNumber' = 0
  /\ totalQuestions' = DefaultTotalQuestions
  /\ userAnswer' = <<>>
  /\ loading' = FALSE
  /\ error' = Null
  /\ isComplete' = FALSE
  /\ conversationHistory' = <<>>

QuestionItem(text, n) == [type |-> "question", content |-> text, number |-> n]
AnswerItem(text, n) == [type |-> "answer", content |-> text, number |-> n]
CompleteItem == [type |-> "complete", content |-> "Interview completed! Great job!"]

\* initializeInterview(sid) up to its await: the start request is sent
InitializeInterview(sid) ==
  /\ loading' = TRUE
  /\ error' = Null
  /\ requests' = requests \cup {startInterview(sid)}
  /\ nCalls' = nCalls + 1
  /\ atCall' = [history |-> <<>>, questionNumber |-> 0]

\* the mount effect without setSessionId(storedSessionId)
MountInterviewPage_NoSetSessionId ==
  /\ ~Mounted
  /\ IF localStorage = Null
     THEN /\ route' = "/"
          /\ FreshPage
          /\ UNCHANGED <<mountEpoch, requests, nCalls, atCall>>
     ELSE /\ nCalls < MaxCalls
          /\ route' = "/interview"
          /\ mountEpoch' = mountEpoch + 1
          /\ sessionId' = Null
          /\ InitializeInterview(localStorage)
          /\ questionNumber' = 0
          /\ totalQuestions' = DefaultTotalQuestions
          /\ userAnswer' = <<>>
          /\ isComplete' = FALSE
          /\ conversationHistory' = <<>>
  /\ UNCHANGED <<localStorage, endResults, engineVars, allSucceeded, utterance,
                 endedByUser, outsideInterview>>

\* the mount effect: read the stored session id, leave when there is none,
\* otherwise keep it and start the interview
MountInterviewPage ==
  /\ ~Mounted
  /\ IF localStorage = Null
     THEN /\ route' = "/"
          /\ FreshPage
          /\ UNCHANGED <<mountEpoch, requests, nCalls, atCall>>
     ELSE /\ nCalls < MaxCalls
          /\ route' = "/interview"
          /\ mountEpoch' = mountEpoch + 1
          /\ sessionId' = localStorage
          /\ InitializeInterview(localStorage)
          /\ questionNumber' = 0
          /\ totalQuestions' = DefaultTotalQuestions
          /\ userAnswer' = <<>>
          /\ isComplete' = FALSE
          /\ conversationHistory' = <<>>
  /\ UNCHANGED <<localStorage, endResults, engineVars, allSucceeded, utterance,
                 endedByUser, outsideInterview>>

\* onChange of the answer textarea (disabled while loading)
SetUserAnswer ==
  /\ Mounted /\ ~isComplete /\ ~loading
  /\ \E text \in AnswerTexts : text # userAnswer /\ userAnswer' = text
  /\ UNCHANGED <<browserVars, sessionId, questionNumber, totalQuestions, loading,
                 error, isComplete, conversationHistory, netVars, engineVars,
                 ghostVars, utterance, endedByUser, outsideInterview>>

\* handleSubmitAnswer with the answer added to the conversation before the
\* blank check
HandleSubmitAnswer_AppendFirst ==
  /\ Mounted /\ ~isComplete /\ ~loading
  /\ conversationHistory' =
       Append(conversationHistory, AnswerItem(userAnswer, questionNumber))
  /\ IF Trim(userAnswer) = <<>>
     THEN /\ error' = "Please provide an answer"
          /\ allSucceeded' = FALSE
          /\ UNCHANGED <<loading, requests, nCalls, atCall>>
     ELSE /\ nCalls < MaxCalls
          /\ loading' = TRUE
          /\ error' = Null
          /\ requests' = requests \cup {submitAnswer(sessionId, userAnswer)}
          /\ nCalls' = nCalls + 1
          /\ atCall' = [history |-> conversationHistory,
                        questionNumber |-> questionNumber]
          /\ UNCHANGED allSucceeded
  /\ UNCHANGED <<browserVars, sessionId, questionNumber, totalQuestions, userAnswer,
                 isComplete, endResults, engineVars, utterance, endedByUser, outsideInterview>>

\* handleSubmitAnswer up to its await.  It is reached from the submit button
\* and from Ctrl+Enter in the textarea, both disabled while loading.
HandleSubmitAnswer ==
  /\ Mounted /\ ~isComplete /\ ~loading
  /\ IF Trim(userAnswer) = <<>>
     THEN /\ error' = "Please provide an answer"
          /\ allSucceeded' = FALSE
          /\ UNCHANGED <<loading, conversationHistory, requests, nCalls, atCall>>
     ELSE /\ nCalls < MaxCalls
          /\ loading' = TRUE
          /\ error' = Null
          /\ conversationHistory' =
               Append(conversationHistory, AnswerItem(userAnswer, questionNumber))
          /\ requests' = requests \cup {submitAnswer(sessionId, userAnswer)}
          /\ nCalls' = nCalls + 1
          /\ atCall' = [history |-> conversationHistory,
                        questionNumber |-> questionNumber]
          /\ UNCHANGED allSucceeded
  /\ UNCHANGED <<browserVars, sessionId, questionNumber, totalQuestions, userAnswer,
                 isComplete, endResults, engineVars, utterance, endedByUser, outsideInterview>>

\* a response that belongs to the mounted page instance
Awaited(resp) == Mounted /\ resp.epoch = mountEpoch

\* initializeInterview after its await resolved, without setQuestionNumber
StartResolved_NoNumber(resp) ==
  /\ totalQuestions' = resp.data.total_questions
  /\ conversationHistory' =
       <<QuestionItem(resp.data.question, resp.data.question_number)>>
  /\ loading' = FALSE
  /\ UNCHANGED <<sessionId, questionNumber, userAnswer, error, isComplete,
                 allSucceeded>>

\* initializeInterview after its await resolved
StartResolved(resp) ==
  /\ questionNumber' = resp.data.question_number
  /\ totalQuestions' = resp.data.total_questions
  /\ conversationHistory' =
       <<QuestionItem(resp.data.question, resp.data.question_number)>>
  /\ loading' = FALSE
  /\ UNCHANGED <<sessionId, userAnswer, error, isComplete, allSucceeded>>

\* initializeInterview after its await rejected
StartRejected(resp) ==
  /\ error' = resp.data.detail
  /\ loading' = FALSE
  /\ allSucceeded' = FALSE
  /\ UNCHANGED <<sessionId, questionNumber, totalQuestions, userAnswer, isComplete,
                 conversationHistory>>

\* handleSubmitAnswer after its await resolved, without setIsComplete(true)
SubmitResolved_NoCompleteFlag(resp) ==
  /\ IF resp.data.is_complete
     THEN /\ conversationHistory' = Append(conversationHistory, CompleteItem)
          /\ UNCHANGED <<questionNumber, isComplete>>
     ELSE /\ questionNumber' = resp.data.question_number
          /\ conversationHistory' =
               Append(conversationHistory,
                      QuestionItem(resp.data.question, resp.data.question_number))
          /\ UNCHANGED isComplete
  /\ userAnswer' = <<>>
  /\ loading' = FALSE
  /\ UNCHANGED <<sessionId, totalQuestions, error, allSucceeded>>

\* handleSubmitAnswer after its await resolved, counting the completion notice
\* as one more question
SubmitResolved_CountsCompletion(resp) ==
  /\ IF resp.data.is_complete
     THEN /\ isComplete' = TRUE
          /\ questionNumber' = questionNumber + 1
          /\ conversationHistory' = Append(conversationHistory, CompleteItem)
     ELSE /\ questionNumber' = resp.data.question_number
          /\ conversationHistory' =
               Append(conversationHistory,
                      QuestionItem(resp.data.question, resp.data.question_number))
          /\ UNCHANGED isComplete
  /\ userAnswer' = <<>>
  /\ loading' = FALSE
  /\ UNCHANGED <<sessionId, totalQuestions, error, allSucceeded>>

\* handleSubmitAnswer after its await resolved
SubmitResolved(resp) ==
  /\ IF resp.data.is_complete
     THEN /\ isComplete' = TRUE
          /\ conversationHistory' = Append(conversationHistory, CompleteItem)
          /\ UNCHANGED questionNumber
     ELSE /\ questionNumber' = resp.data.question_number
          /\ conversationHistory' =
               Append(conversationHistory,
                      QuestionItem(resp.data.question, resp.data.question_number))
          /\ UNCHANGED isComplete
  /\ userAnswer' = <<>>
  /\ loading' = FALSE
  /\ UNCHANGED <<sessionId, totalQuestions, error, allSucceeded>>

\* handleSubmitAnswer after its await rejected, with the answer cleared as
\* after a resolved call
SubmitRejected_ClearsAnswer(resp) ==
  /\ error' = resp.data.detail
  /\ userAnswer' = <<>>
  /\ loading' = FALSE
  /\ allSucceeded' = FALSE
  /\ UNCHANGED <<sessionId, questionNumber, totalQuestions, isComplete,
                 conversationHistory>>

\* handleSubmitAnswer after its await rejected
SubmitRejected(resp) ==
  /\ error' = resp.data.detail
  /\ loading' = FALSE
  /\ allSucceeded' = FALSE
  /\ UNCHANGED <<sessionId, questionNumber, totalQuestions, userAnswer, isComplete,
                 conversationHistory>>

\* the response carries a question, which the code that awaits it passes to
\* speakText
HasQuestion(resp) ==
  resp.ok /\ (resp.op = "start" \/ ~resp.data.is_complete)

\* the response of a request reaches the code that awaits it.  The state
\* setters of a page instance that is no longer mounted have no effect, but
\* the rest of the continuation (speakText) runs when the instance was left
\* by navigation inside the application; it does not run when the document
\* was reloaded.
Deliver(resp) ==
  IF Awaited(resp)
  THEN /\ CASE resp.op = "start" /\ resp.ok -> StartResolved(resp)
            [] resp.op = "start" /\ ~resp.ok -> StartRejected(resp)
            [] resp.op = "submit" /\ resp.ok -> SubmitResolved(resp)
            [] resp.op = "submit" /\ ~resp.ok -> SubmitRejected(resp)
       /\ atCall' = NoCall
       /\ utterance' = IF HasQuestion(resp) THEN resp.data.question ELSE utterance
  ELSE /\ UNCHANGED <<pageVars, ghostVars>>
       /\ \/ utterance' = IF HasQuestion(resp) THEN resp.data.question ELSE utterance
          \/ utterance' = utterance

\* handleEndInterview, confirmed
HandleEndInterview ==
  /\ Mounted /\ ~isComplete
  /\ localStorage' = Null
  /\ route' = "/feedback"
  /\ endedByUser' = endedByUser \cup {sessionId}
  /\ FreshPage
  /\ atCall' = NoCall
  /\ UNCHANGED <<mountEpoch, netVars, engineVars, allSucceeded, utterance,
                 outsideInterview>>

\* the two buttons of the completion card
CompletionNavigate ==
  /\ Mounted /\ isComplete
  /\ \E to \in {"/", "/feedback"} : route' = to
  /\ FreshPage
  /\ atCall' = NoCall
  /\ UNCHANGED <<localStorage, mountEpoch, netVars, engineVars, allSucceeded,
                 utterance, endedByUser, outsideInterview>>

\* the router leaves /interview for another reason (history navigation, reload):
\* the component is unmounted and its state is gone, localStorage stays
LeaveInterviewRoute ==
  /\ Mounted
  /\ route' = "/"
  /\ FreshPage
  /\ atCall' = NoCall
  /\ UNCHANGED <<localStorage, mountEpoch, netVars, engineVars, allSucceeded,
                 utterance, endedByUser, outsideInterview>>

\* FeedbackPage.handleStartNew
HandleStartNew ==
  /\ route = "/feedback"
  /\ localStorage' = Null
  /\ route' = "/"
  /\ UNCHANGED <<mountEpoch, pageVars, netVars, engineVars, ghostVars, utterance,
                 endedByUser, outsideInterview>>

----------------------------------------------------------------------------
(* Interview Engine (design document 4.5, 5, 7) *)

\* start(session): requires INIT, then the generation call is issued
EngineStart ==
  \E req \in requests :
    /\ req.op = "start"
    /\ busy[req.sid] = NoRequest
    /\ requests' = requests \ {req}
    /\ IF sessions[req.sid].status # "INIT"
       THEN /\ Deliver(ErrorResponse(req, "InvalidStateError"))
            /\ UNCHANGED <<busy, genCalls>>
       ELSE /\ busy' = [busy EXCEPT ![req.sid] = req]
            /\ genCalls' = [genCalls EXCEPT ![req.sid] = 1]
            /\ UNCHANGED <<pageVars, ghostVars, utterance>>
    /\ UNCHANGED <<browserVars, nCalls, endResults, sessions, endedByUser, outsideInterview>>

\* the session after the answer of a turn is recorded and the budget is used up
CompleteSession(s, answer) ==
  [s EXCEPT !.history = Append(s.history, Turn(s.history, "answer", answer)),
            !.status = "COMPLETED"]

\* submit_answer(session, answer_text) without the per-session lock: a turn is
\* begun while another turn of the session is still being generated
EngineSubmit_NoLock ==
  \E req \in requests :
    /\ req.op = "submit"
    /\ requests' = requests \ {req}
    /\ LET s == sessions[req.sid] IN
       IF s.status # "IN_PROGRESS"
       THEN /\ Deliver(ErrorResponse(req, "InvalidStateError"))
            /\ UNCHANGED <<sessions, busy, genCalls>>
       ELSE IF Trim(req.answer) = <<>>
       THEN /\ Deliver(ErrorResponse(req, "EmptyAnswerError"))
            /\ UNCHANGED <<sessions, busy, genCalls>>
       ELSE IF s.question_count = s.max_questions
       THEN /\ sessions' = [sessions EXCEPT ![req.sid] = CompleteSession(s, req.answer)]
            /\ Deliver(OkResponse(req, [is_complete |-> TRUE]))
            /\ UNCHANGED <<busy, genCalls>>
       ELSE /\ busy' = [busy EXCEPT ![req.sid] = req]
            /\ genCalls' = [genCalls EXCEPT ![req.sid] = 1]
            /\ UNCHANGED <<sessions, pageVars, ghostVars, utterance>>
    /\ UNCHANGED <<browserVars, nCalls, endResults, endedByUser, outsideInterview>>

\* submit_answer(session, answer_text): requires IN_PROGRESS and a non-blank
\* answer; completes the session when the budget is used up, otherwise the
\* retrieval and generation calls are issued
EngineSubmit ==
  \E req \in requests :
    /\ req.op = "submit"
    /\ busy[req.sid] = NoRequest
    /\ requests' = requests \ {req}
    /\ LET s == sessions[req.sid] IN
       IF s.status # "IN_PROGRESS"
       THEN /\ Deliver(ErrorResponse(req, "InvalidStateError"))
            /\ UNCHANGED <<sessions, busy, genCalls>>
       ELSE IF Trim(req.answer) = <<>>
       THEN /\ Deliver(ErrorResponse(req, "EmptyAnswerError"))
            /\ UNCHANGED <<sessions, busy, genCalls>>
       ELSE IF s.question_count = s.max_questions
       THEN /\ sessions' = [sessions EXCEPT ![req.sid] = CompleteSession(s, req.answer)]
            /\ Deliver(OkResponse(req, [is_complete |-> TRUE]))
            /\ UNCHANGED <<busy, genCalls>>
       ELSE /\ busy' = [busy EXCEPT ![req.sid] = req]
            /\ genCalls' = [genCalls EXCEPT ![req.sid] = 1]
            /\ UNCHANGED <<sessions, pageVars, ghostVars, utterance>>
    /\ UNCHANGED <<browserVars, nCalls, endResults, endedByUser, outsideInterview>>

\* the session after the generated question of a turn is applied
ApplyTurn(s, req, text) ==
  IF req.op = "start"
  THEN [s EXCEPT !.history = Append(s.history, Turn(s.history, "question", text)),
                 !.question_count = 1,
                 !.status = "IN_PROGRESS"]
  ELSE LET h == Append(s.history, Turn(s.history, "answer", req.answer)) IN
       [s EXCEPT !.history = Append(h, Turn(h, "question", text)),
                 !.question_count = s.question_count + 1]

\* what a turn returns to its caller
TurnResult(s, req, text) ==
  IF req.op = "start"
  THEN [question |-> text, question_number |-> s.question_count,
        total_questions |-> s.max_questions]
  ELSE [is_complete |-> FALSE, question |-> text,
        question_number |-> s.question_count]

\* the duplicate test on the raw text, without normalization
IsDuplicate_RawText(s, text) ==
  \E i \in 1..Len(s.history) :
    /\ s.history[i].type = "question"
    /\ s.history[i].text = text

\* the text duplicates a question of the session: its normalized text is that
\* of a prior question turn
IsDuplicate(s, text) ==
  \E i \in 1..Len(s.history) :
    /\ s.history[i].type = "question"
    /\ Normalize(s.history[i].text) = Normalize(text)

\* the turn in flight ends: the lock is released
ReleaseTurn(sid) ==
  /\ busy' = [busy EXCEPT ![sid] = NoRequest]
  /\ genCalls' = [genCalls EXCEPT ![sid] = 0]

\* the generated question is applied and returned
AcceptQuestion(sid, text) ==
  LET req == busy[sid]
      s == sessions[sid]
  IN /\ sessions' = [sessions EXCEPT ![sid] = ApplyTurn(s, req, text)]
     /\ Deliver(OkResponse(req, TurnResult(ApplyTurn(s, req, text), req, text)))
     /\ ReleaseTurn(sid)

\* a generation call of a turn returns a question, and the engine regenerates
\* as long as the result is a duplicate
EngineGenerated_RegenerateWhileDuplicate ==
  \E sid \in Sids, text \in QuestionTexts :
    /\ busy[sid] # NoRequest
    /\ LET req == busy[sid]
           s == sessions[sid] IN
       IF s.status = "TERMINATED"
       THEN /\ Deliver(ErrorResponse(req, "InvalidStateError"))
            /\ ReleaseTurn(sid)
            /\ UNCHANGED sessions
       ELSE IF ~IsDuplicate(s, text)
       THEN AcceptQuestion(sid, text)
       ELSE /\ genCalls' = [genCalls EXCEPT ![sid] = @ + 1]
            /\ UNCHANGED <<sessions, busy, pageVars, ghostVars, utterance>>
    /\ UNCHANGED <<browserVars, netVars, endedByUser, outsideInterview>>

\* a generation call of a turn returns a question.  The result is discarded
\* when the session was ended in the meantime.  A duplicate of a prior
\* question makes the engine regenerate once; a second duplicate is either
\* accepted (4.5: "before accepting a possibly-duplicate result") or the turn
\* fails with GenerationUnavailableError (7, 8).
EngineGenerated ==
  \E sid \in Sids, text \in QuestionTexts :
    /\ busy[sid] # NoRequest
    /\ LET req == busy[sid]
           s == sessions[sid] IN
       IF s.status = "TERMINATED"
       THEN /\ Deliver(ErrorResponse(req, "InvalidStateError"))
            /\ ReleaseTurn(sid)
            /\ UNCHANGED sessions
       ELSE IF ~IsDuplicate(s, text)
       THEN AcceptQuestion(sid, text)
       ELSE IF genCalls[sid] < MaxGenerationCalls
       THEN /\ genCalls' = [genCalls EXCEPT ![sid] = @ + 1]
            /\ UNCHANGED <<sessions, busy, pageVars, ghostVars, utterance>>
       ELSE \/ AcceptQuestion(sid, text)
            \/ /\ Deliver(ErrorResponse(req, "GenerationUnavailableError"))
               /\ ReleaseTurn(sid)
               /\ UNCHANGED sessions
    /\ UNCHANGED <<browserVars, netVars, endedByUser, outsideInterview>>

\* the provider calls of a turn fail (error or timeout, retries used up): the
\* turn fails and the session is left as it was
EngineGenerationFailed ==
  \E sid \in Sids :
    /\ busy[sid] # NoRequest
    /\ Deliver(ErrorResponse(busy[sid], "GenerationUnavailableError"))
    /\ ReleaseTurn(sid)
    /\ UNCHANGED <<browserVars, netVars, sessions, endedByUser, outsideInterview>>

\* end(session): to TERMINATED from a non-terminal state, otherwise nothing
End(s) ==
  [s EXCEPT !.status = IF @ \in {"INIT", "IN_PROGRESS"} THEN "TERMINATED" ELSE @]

\* the reply to end(session), with an error for a session that was ended before
EndReply_NotFoundWhenEnded(s) ==
  IF s.status = "TERMINATED" THEN "SessionNotFoundError" ELSE "ack"

\* the reply to end(session): an acknowledgement, whatever the state
EndReply(s) == "ack"

\* a caller of the API client's endSession(sessionId): DELETE
\* /api/session/{sessionId}; the engine ends the session and acknowledges,
\* and endSession returns the acknowledgement
EndSession ==
  /\ Len(endResults) < MaxEndCalls
  /\ \E sid \in Sids :
       /\ sessions' = [sessions EXCEPT ![sid] = End(@)]
       /\ endResults' = Append(endResults, EndReply(sessions[sid]))
  /\ UNCHANGED <<browserVars, pageVars, requests, nCalls, busy, genCalls,
                 ghostVars, utterance, endedByUser, outsideInterview>>

----------------------------------------------------------------------------
Next ==
  \/ MountInterviewPage
  \/ SetUserAnswer
  \/ HandleSubmitAnswer
  \/ HandleEndInterview
  \/ CompletionNavigate
  \/ LeaveInterviewRoute
  \/ HandleStartNew
  \/ EngineStart
  \/ EngineSubmit
  \/ EngineGenerated
  \/ EngineGenerationFailed
  \/ EndSession

Spec == Init /\ [][Next]_vars

----------------------------------------------------------------------------
(* UploadJDPage and JobProvider (job_context) *)

\* files the user may select: plain text, a PDF whose text has surplus
\* whitespace, a text file with only whitespace, an image, a PDF the extractor
\* cannot read, a DOCX that names two keywords of the question table
Files ==
  { [name |-> "a.txt", size |-> 1, type |-> "text/plain",
     content |-> <<"x">>, readable |-> TRUE],
    [name |-> "b.pdf", size |-> 2, type |-> "application/pdf",
     content |-> <<" ", "y", " ", " ", "z", " ">>, readable |-> TRUE],
    [name |-> "c.txt", size |-> 3, type |-> "text/plain",
     content |-> <<" ", " ">>, readable |-> TRUE],
    [name |-> "d.png", size |-> 4, type |-> "image/png",
     content |-> <<"x">>, readable |-> TRUE],
    [name |-> "e.pdf", size |-> 5, type |-> "application/pdf",
     content |-> <<>>, readable |-> FALSE],
    [name |-> "f.docx", size |-> 6,
     type |-> "application/vnd.openxmlformats-officedocument.wordprocessingml.document",
     content |-> <<"R", "e", "a", "c", "t", " ", "n", "o", "d", "e">>,
     readable |-> TRUE] }

\* the MIME types readFile has an extractor for
SupportedTypes ==
  { "application/pdf",
    "application/vnd.openxmlformats-officedocument.wordprocessingml.document",
    "text/plain" }

\* text.replace(/\s+/g, " ")
\* computed on the two halves of the text, whose results are joined with one
\* space where a run of whitespace spans the cut
RECURSIVE CollapseSpaces(_)
CollapseSpaces(s) ==
  IF s = <<>> THEN <<>>
  ELSE IF Len(s) = 1 THEN (IF IsSpace(s[1]) THEN <<" ">> ELSE s)
  ELSE LET mid == Len(s) \div 2
           left == CollapseSpaces(SubSeq(s, 1, mid))
           right == CollapseSpaces(SubSeq(s, mid + 1, Len(s)))
       IN  IF IsSpace(left[Len(left)]) /\ IsSpace(right[1])
           THEN left \o Tail(right)
           ELSE left \o right

cleanText(text) == Trim(CollapseSpaces(text))

\* text.slice(0, n)
Slice(text, n) == SubSeq(text, 1, IF Len(text) < n THEN Len(text) ELSE n)

summarize(text) ==
  LET snippet == cleanText(text) IN
  IF snippet = <<>> THEN <<>>
  ELSE IF Len(snippet) <= SummaryLength THEN snippet
  ELSE Slice(snippet, SummaryLength) \o <<".", ".", ".">>

\* useMemo(() => summarize(extractedText))
summary == summarize(extractedText)

UploadMounted == route = "/"

\* the 'Continue to interview' button is enabled
CanContinue == UploadMounted /\ summary # <<>> /\ ~extracting

\* the preview after the handler set it to pv and the effect on
\* [extractedText, fileName] has run
PreviewAfterEffect(pv) ==
  IF /\ fileName' # fileName \/ extractedText' # extractedText
     /\ fileName' = Null /\ extractedText' # <<>>
  THEN Slice(extractedText', SavedPreviewLength)
  ELSE pv

saveExtraction(file) ==
  /\ fileMeta' = [name |-> file.name, size |-> file.size]
  /\ extractedText' = cleanText(file.content)

clearJob ==
  /\ fileMeta' = [name |-> Null, size |-> 0]
  /\ extractedText' = <<>>

\* the state of a new UploadJDPage instance
FreshUploadPage ==
  /\ fileName' = Null
  /\ fileSize' = Null
  /\ uploadError' = Null
  /\ extracting' = FALSE

\* handleFileObject(file) up to its await: handleFile and handleDrop
HandleFileObject(file) ==
  /\ UploadMounted
  /\ nSelections < MaxSelections
  /\ uploadError' = Null
  /\ extracting' = TRUE
  /\ fileName' = file.name
  /\ fileSize' = file.size
  /\ nSelections' = nSelections + 1
  /\ selectedFile' = file.name
  /\ extractions' =
       extractions \cup {[id |-> nSelections + 1, file |-> file, orphan |-> FALSE]}
  /\ UNCHANGED jobVars
  /\ preview' = PreviewAfterEffect(preview)
  /\ UNCHANGED <<route, outsideUpload>>

\* the try block of handleFileObject after readFile returned the text, and
\* its finally
TryExtraction(e) ==
  /\ saveExtraction(e.file)
  /\ IF e.orphan
     THEN /\ UNCHANGED <<fileName, fileSize, uploadError, extracting>>
          /\ preview' = IF UploadMounted THEN PreviewAfterEffect(preview) ELSE preview
     ELSE /\ extracting' = FALSE
          /\ UNCHANGED <<fileName, fileSize, uploadError>>
          /\ preview' = PreviewAfterEffect(Slice(e.file.content, PreviewLength))

\* the catch block of handleFileObject without clearJob(), and its finally
CatchExtraction_NoClearJob(e, message) ==
  /\ UNCHANGED jobVars
  /\ IF e.orphan
     THEN UNCHANGED uploadPageVars
     ELSE /\ uploadError' = message
          /\ extracting' = FALSE
          /\ UNCHANGED <<fileName, fileSize>>
          /\ preview' = PreviewAfterEffect(<<>>)

\* the catch block of handleFileObject, and its finally
CatchExtraction(e, message) ==
  /\ clearJob
  /\ IF e.orphan
     THEN UNCHANGED uploadPageVars
     ELSE /\ uploadError' = message
          /\ extracting' = FALSE
          /\ UNCHANGED <<fileName, fileSize>>
          /\ preview' = PreviewAfterEffect(<<>>)

\* readFile(file) resolves with the text of the file, and the text is saved
\* without the check of text.trim()
ReadFileResolves_NoBlankCheck ==
  \E e \in extractions :
    /\ e.file.type \in SupportedTypes /\ e.file.readable
    /\ extractions' = extractions \ {e}
    /\ TryExtraction(e)
    /\ UNCHANGED <<nSelections, selectedFile, route, outsideUpload>>

\* readFile(file) resolves with the text of the file
ReadFileResolves ==
  \E e \in extractions :
    /\ e.file.type \in SupportedTypes /\ e.file.readable
    /\ extractions' = extractions \ {e}
    /\ IF Trim(e.file.content) = <<>>
       THEN CatchExtraction(e, "Could not extract text. Try a different file.")
       ELSE TryExtraction(e)
    /\ UNCHANGED <<nSelections, selectedFile, route, outsideUpload>>

\* readFile(file) rejects: no extractor for the type, or the extractor throws
ReadFileRejects ==
  \E e \in extractions :
    /\ ~(e.file.type \in SupportedTypes /\ e.file.readable)
    /\ extractions' = extractions \ {e}
    /\ CatchExtraction(e, IF e.file.type \in SupportedTypes
                          THEN "Extraction failed"
                          ELSE "Unsupported file type. Please upload PDF, DOCX or TXT.")
    /\ UNCHANGED <<nSelections, selectedFile, route, outsideUpload>>

\* onClick of the Remove button
RemoveFile ==
  /\ UploadMounted
  /\ fileName' = Null
  /\ fileSize' = Null
  /\ uploadError' = Null
  /\ clearJob
  /\ preview' = PreviewAfterEffect(<<>>)
  /\ selectedFile' = Null
  /\ UNCHANGED <<extracting, extractions, nSelections, route, outsideUpload>>

\* onClick of 'Continue to interview': the page is unmounted, the calls of
\* handleFileObject that still wait go on without it
ContinueToInterview ==
  /\ CanContinue
  /\ route' = "/interview"
  /\ FreshUploadPage
  /\ preview' = <<>>
  /\ extractions' = {[e EXCEPT !.orphan = TRUE] : e \in extractions}
  /\ UNCHANGED <<jobVars, nSelections, selectedFile, outsideUpload>>

\* the route "/" is entered again: a new UploadJDPage is mounted and its
\* effect shows the saved extraction
ReturnToUpload ==
  /\ route = "/interview"
  /\ route' = "/"
  /\ FreshUploadPage
  /\ preview' = Slice(extractedText, SavedPreviewLength)
  /\ UNCHANGED <<jobVars, extractions, nSelections, selectedFile, outsideUpload>>

InitUpload ==
  /\ InitInterview
  /\ InitUploadPage
  /\ InitRetrieval
  /\ InitDerive
  /\ InitPlannedPage
  /\ localStorage = Null
  /\ \A sid \in Sids : sessions[sid].max_questions = 1

NextUpload ==
  \/ \E file \in Files : HandleFileObject(file)
  \/ ReadFileResolves
  \/ ReadFileRejects
  \/ RemoveFile
  \/ ContinueToInterview
  \/ ReturnToUpload

SpecUpload == InitUpload /\ [][NextUpload]_vars

----------------------------------------------------------------------------
(* Chunker: chunk(text, size=500, overlap=100) -> sequence of Chunk *)

Min(a, b) == IF a <= b THEN a ELSE b

\* the chunk's text is the document's characters start_offset .. end_offset - 1,
\* with whitespace stripped at both ends
Chunk_TrimmedText(id, text, start, end) ==
  [id |-> id, text |-> Trim(SubSeq(text, start + 1, end)),
   start_offset |-> start, end_offset |-> end]

\* Chunk: {id: ordinal, text, start_offset, end_offset}; offsets count from 0
\* and end_offset is exclusive
Chunk(id, text, start, end) ==
  [id |-> id, text |-> SubSeq(text, start + 1, end),
   start_offset |-> start, end_offset |-> end]

\* a window is opened at every multiple of size - overlap before the end of the
\* text, also when the previous window already reached the end
RECURSIVE SlidingWindow_UntilStartPastEnd(_, _, _, _, _)
SlidingWindow_UntilStartPastEnd(text, size, overlap, start, id) ==
  LET end == Min(start + size, Len(text))
      next == start + (size - overlap)
  IN  IF next >= Len(text)
      THEN <<Chunk(id, text, start, end)>>
      ELSE <<Chunk(id, text, start, end)>>
             \o SlidingWindow_UntilStartPastEnd(text, size, overlap, next, id + 1)

\* fixed-size sliding window: a window of size characters that advances by
\* size - overlap until it reaches the end of the text
RECURSIVE SlidingWindow(_, _, _, _, _)
SlidingWindow(text, size, overlap, start, id) ==
  LET end == Min(start + size, Len(text))
  IN  IF end = Len(text)
      THEN <<Chunk(id, text, start, end)>>
      ELSE <<Chunk(id, text, start, end)>>
             \o SlidingWindow(text, size, overlap, start + (size - overlap), id + 1)

chunk(text, size, overlap) == SlidingWindow(text, size, overlap, 0, 1)

\* EmptyInputError: the extracted text is empty or whitespace-only
EmptyInput(text) == Trim(text) = <<>>

ChunkDocument ==
  /\ chunkerState = "idle"
  /\ ~EmptyInput(document)
  /\ chunks' = chunk(document, chunk_size, chunk_overlap)
  /\ chunkerState' = "done"
  /\ UNCHANGED <<document, chunk_size, chunk_overlap, indexVars, interviewVars,
                 uploadVars, deriveVars, plannedVars>>

ChunkRejects ==
  /\ chunkerState = "idle"
  /\ EmptyInput(document)
  /\ chunkerState' = "EmptyInputError"
  /\ UNCHANGED <<document, chunk_size, chunk_overlap, chunks, indexVars,
                 interviewVars, uploadVars, deriveVars, plannedVars>>

\* characters of the documents that are chunked
Alphabet == {"a", "b", " "}
Texts(n) == UNION {[1..m -> Alphabet] : m \in 0..n}
\* the 1200-character document of the happy-path scenario
ScenarioLength == 1200
ScenarioDocument ==
  [i \in 1..ScenarioLength |->
     IF (i * i) % 7 = 0 THEN " " ELSE IF (i * i) % 7 < 3 THEN "a" ELSE "b"]

InitChunk ==
  /\ InitInterview
  /\ localStorage = Null
  /\ \A sid \in Sids : sessions[sid].max_questions = 1
  /\ InitUploadPage
  /\ InitDerive
  /\ InitPlannedPage
  /\ chunkerState = "idle"
  /\ chunks = <<>>
  /\ \/ /\ document \in Texts(MaxTextLen)
        /\ chunk_size \in 1..MaxChunkSize
        /\ chunk_overlap \in 0..(chunk_size - 1)
     \/ /\ document = ScenarioDocument
        /\ chunk_size = DefaultChunkSize
        /\ chunk_overlap = DefaultChunkOverlap
  /\ indexState = "empty"
  /\ index = <<>>
  /\ lastQuery = NoQuery
  /\ retrieval = <<>>

NextChunk ==
  \/ ChunkDocument
  \/ ChunkRejects

SpecChunk == InitChunk /\ [][NextChunk]_vars

----------------------------------------------------------------------------
(* Embedding Index: build(chunks) -> Index; query(vector, k) -> Retrieval Result *)

\* vectors the Embedding Provider returns; <<1, 1>> and <<2, 2>> have the same
\* direction, so distinct vectors tie on cosine similarity
Vectors == {<<1, 0>>, <<1, 1>>, <<2, 2>>, <<-1, 0>>, <<1, -1>>}

RECURSIVE DotUpTo(_, _, _)
DotUpTo(u, v, n) == IF n = 0 THEN 0 ELSE u[n] * v[n] + DotUpTo(u, v, n - 1)
Dot(u, v) == DotUpTo(u, v, Len(u))

\* cosine similarity of u and v, kept exact as num / sqrt(den2)
Cosine(u, v) == [num |-> Dot(u, v), den2 |-> Dot(u, u) * Dot(v, v)]

\* s < t for two similarities num / sqrt(den2) with den2 > 0
ScoreLess(s, t) ==
  IF s.num < 0 /\ t.num >= 0 THEN TRUE
  ELSE IF s.num >= 0 /\ t.num < 0 THEN FALSE
  ELSE IF s.num >= 0
       THEN s.num * s.num * t.den2 < t.num * t.num * s.den2
       ELSE s.num * s.num * t.den2 > t.num * t.num * s.den2

ScoreEqual(s, t) == ~ScoreLess(s, t) /\ ~ScoreLess(t, s)

\* chunk a ranks before chunk b: on equal scores the later document position wins
Precedes_HigherOrdinalOnTies(idx, v, a, b) ==
  \/ ScoreLess(Cosine(idx[b], v), Cosine(idx[a], v))
  \/ /\ ScoreEqual(Cosine(idx[a], v), Cosine(idx[b], v))
     /\ a > b

\* chunk a ranks before chunk b: higher score, ties broken by lower chunk ordinal
Precedes(idx, v, a, b) ==
  \/ ScoreLess(Cosine(idx[b], v), Cosine(idx[a], v))
  \/ /\ ScoreEqual(Cosine(idx[a], v), Cosine(idx[b], v))
     /\ a < b

RECURSIVE TopK(_, _, _, _)
TopK(idx, v, ids, k) ==
  IF k = 0 \/ ids = {} THEN <<>>
  ELSE LET best == CHOOSE a \in ids : \A b \in ids \ {a} : Precedes(idx, v, a, b)
       IN  <<[chunk |-> best, score |-> Cosine(idx[best], v)]>>
             \o TopK(idx, v, ids \ {best}, k - 1)

query(idx, v, k) == TopK(idx, v, DOMAIN idx, k)

\* build: one Embedding Provider call per chunk, vectors keyed by chunk id
Build ==
  /\ chunkerState = "done"
  /\ indexState = "empty"
  /\ \E vectors \in [1..Len(chunks) -> Vectors] : index' = vectors
  /\ indexState' = "built"
  /\ UNCHANGED <<lastQuery, retrieval, chunkerVars, interviewVars, uploadVars, deriveVars, plannedVars>>

\* a provider failure during build aborts index construction
BuildFails ==
  /\ chunkerState = "done"
  /\ indexState = "empty"
  /\ indexState' = "EmbeddingUnavailableError"
  /\ UNCHANGED <<index, lastQuery, retrieval, chunkerVars, interviewVars, uploadVars, deriveVars, plannedVars>>

Query(v, k) ==
  /\ indexState = "built"
  /\ retrieval' = query(index, v, k)
  /\ lastQuery' = [vector |-> v, k |-> k]
  /\ UNCHANGED <<indexState, index, chunkerVars, interviewVars, uploadVars, deriveVars, plannedVars>>

\* a document of n + 1 characters, cut into n chunks of 2 characters
IndexedDocument(n) == [i \in 1..(n + 1) |-> IF i % 2 = 1 THEN "a" ELSE "b"]

InitIndex ==
  /\ InitInterview
  /\ localStorage = Null
  /\ \A sid \in Sids : sessions[sid].max_questions = 1
  /\ InitUploadPage
  /\ InitDerive
  /\ InitPlannedPage
  /\ \E n \in 1..MaxIndexed : document = IndexedDocument(n)
  /\ chunk_size = 2
  /\ chunk_overlap = 1
  /\ chunkerState = "done"
  /\ chunks = chunk(document, chunk_size, chunk_overlap)
  /\ indexState = "empty"
  /\ index = <<>>
  /\ lastQuery = NoQuery
  /\ retrieval = <<>>

NextIndex ==
  \/ Build
  \/ BuildFails
  \/ \E v \in Vectors, k \in 1..MaxK : Query(v, k)

SpecIndex == InitIndex /\ [][NextIndex]_vars

----------------------------------------------------------------------------
(* job_context: deriveQuestions *)

UpperCase ==
  <<"A", "B", "C", "D", "E", "F", "G", "H", "I", "J", "K", "L", "M", "N", "O", "P", "Q", "R", "S", "T", "U", "V", "W", "X", "Y", "Z">>
LowerCase ==
  <<"a", "b", "c", "d", "e", "f", "g", "h", "i", "j", "k", "l", "m", "n", "o", "p", "q", "r", "s", "t", "u", "v", "w", "x", "y", "z">>

\* String.prototype.toLowerCase
toLowerCase(text) ==
  <<>> \o [i \in 1..Len(text) |->
            IF \E n \in 1..Len(UpperCase) : UpperCase[n] = text[i]
            THEN LowerCase[CHOOSE n \in 1..Len(UpperCase) : UpperCase[n] = text[i]]
            ELSE text[i]]

\* String.prototype.includes
includes(text, word) ==
  \E i \in 0..(Len(text) - Len(word)) : SubSeq(text, i + 1, i + Len(word)) = word

keywordQuestions ==
  << [keyword |-> <<"r", "e", "a", "c", "t">>,
      prompt |-> "Walk me through a React project you shipped and your specific contributions."],
     [keyword |-> <<"n", "o", "d", "e">>,
      prompt |-> "Describe how you would design a resilient Node.js API for this role."],
     [keyword |-> <<"p", "y", "t", "h", "o", "n">>,
      prompt |-> "What Python libraries would you choose for this job and why?"],
     [keyword |-> <<"m", "l">>,
      prompt |-> "How would you apply machine learning to the requirements you read?"],
     [keyword |-> <<"d", "a", "t", "a">>,
      prompt |-> "Tell me about a data pipeline you built and how you validated data quality."],
     [keyword |-> <<"c", "l", "o", "u", "d">>,
      prompt |-> "Explain how you would deploy this product securely in the cloud."],
     [keyword |-> <<"l", "e", "a", "d">>,
      prompt |-> "Share a time you led a team through ambiguity for a delivery."],
     [keyword |-> <<"d", "e", "s", "i", "g", "n">>,
      prompt |-> "How do you approach designing user experiences for this problem space?"] >>

base ==
  << "Give me a 60-second overview of why you fit this role.",
     "Tell me about a challenging situation from the job description that you have handled before.",
     "How would you measure success in this role in the first 90 days?" >>

StakeholderKeyword == <<"s", "t", "a", "k", "e", "h", "o", "l", "d", "e", "r">>
StakeholderQuestion == "How will you align stakeholders with competing priorities?"
\* cleanText(text).length > 600
StakeholderLength == 600
\* slice(0, 8)
MaxDerivedQuestions == 8

\* Set.prototype.add on a Set listed in insertion order
AddPick(picks, q) ==
  IF \E i \in 1..Len(picks) : picks[i] = q THEN picks ELSE Append(picks, q)

\* keywordQuestions.forEach from entry i on
RECURSIVE AddKeywordPicks(_, _, _)
AddKeywordPicks(picks, normalized, i) ==
  IF i > Len(keywordQuestions) THEN picks
  ELSE AddKeywordPicks(IF includes(normalized, keywordQuestions[i].keyword)
                       THEN AddPick(picks, keywordQuestions[i].prompt)
                       ELSE picks,
                       normalized, i + 1)

\* deriveQuestions with the keywords looked up in the text as it is written
deriveQuestions_CaseSensitive(text) ==
  LET normalized == cleanText(text)
      picks == AddKeywordPicks(base, normalized, 1)
      all == IF Len(cleanText(text)) > StakeholderLength
                /\ ~includes(normalized, StakeholderKeyword)
             THEN AddPick(picks, StakeholderQuestion)
             ELSE picks
  IN  Slice(all, MaxDerivedQuestions)

deriveQuestions(text) ==
  LET normalized == toLowerCase(cleanText(text))
      picks == AddKeywordPicks(base, normalized, 1)
      all == IF Len(cleanText(text)) > StakeholderLength
                /\ ~includes(normalized, StakeholderKeyword)
             THEN AddPick(picks, StakeholderQuestion)
             ELSE picks
  IN  Slice(all, MaxDerivedQuestions)

\* useMemo(() => deriveQuestions(extractedText))
questions == deriveQuestions(extractedText)

DeriveQuestions ==
  /\ derived = NotDerived
  /\ derived' = deriveQuestions(deriveText)
  /\ UNCHANGED <<deriveText, interviewVars, uploadVars, ragVars, plannedVars>>

\* words of the texts given to deriveQuestions: keywords in several spellings,
\* inside longer words, and the word that suppresses the stakeholder question
Vocabulary ==
  << <<"R", "e", "a", "c", "t">>,
     <<"N", "O", "D", "E">>,
     <<"p", "y", "t", "h", "o", "n">>,
     <<"h", "t", "m", "l">>,
     <<"D", "a", "t", "a">>,
     <<"c", "l", "o", "u", "d">>,
     <<"l", "e", "a", "d", "e", "r">>,
     <<"d", "e", "s", "i", "g", "n">>,
     <<"S", "t", "a", "k", "e", "h", "o", "l", "d", "e", "r", "s">> >>

\* the words of the vocabulary with an index in picked, each after two spaces
RECURSIVE JoinWords(_, _)
JoinWords(picked, i) ==
  IF i > Len(Vocabulary) THEN <<>>
  ELSE (IF i \in picked THEN <<" ", " ">> \o Vocabulary[i] ELSE <<>>)
         \o JoinWords(picked, i + 1)

\* text followed by filler so that the cleaned text has n characters
PadTo(text, n) ==
  LET len == Len(cleanText(text))
      fill == IF len = 0 THEN n ELSE n - len - 1
  IN  IF fill <= 0 THEN text ELSE text \o <<" ">> \o [i \in 1..fill |-> "x"]

InitDeriveQuestions ==
  /\ InitInterview
  /\ localStorage = Null
  /\ \A sid \in Sids : sessions[sid].max_questions = 1
  /\ InitUploadPage
  /\ InitRetrieval
  /\ InitPlannedPage
  /\ derived = NotDerived
  /\ \E picked \in SUBSET (1..Len(Vocabulary)) :
       /\ Cardinality(picked) <= MaxWords
       /\ \E n \in {0, StakeholderLength, StakeholderLength + 1} :
            deriveText = PadTo(JoinWords(picked, 1), n)

NextDeriveQuestions == DeriveQuestions

SpecDeriveQuestions == InitDeriveQuestions /\ [][NextDeriveQuestions]_vars

----------------------------------------------------------------------------
(* InterviewPage with planned questions (pages/interview_page) *)

\* the page stays on /interview only while the job context holds a text: the
\* effect on [extractedText, navigate] leaves for / otherwise
PlannedMounted == route = "/interview" /\ extractedText # <<>>

FallbackQuestion == "Tell me about yourself and your key strengths."

\* questions?.[qIndex] || fallback
activeQuestion ==
  IF qIndex + 1 <= Len(questions) THEN questions[qIndex + 1] ELSE FallbackQuestion

\* what the planned-question page and its recogniser never touch, the route apart
outsidePlanned == <<interviewState, uploadVars, ragVars, deriveVars>>

\* the state of a new page instance
FreshPlannedPage ==
  /\ qIndex' = 0
  /\ transcript' = <<>>
  /\ answers' = <<>>
  /\ listening' = FALSE

\* the page is unmounted: its state is gone and the effect cleanup stops the
\* recogniser, whose later events set no state
UnmountPlannedPage ==
  /\ FreshPlannedPage
  /\ recognition' = [recognition EXCEPT !.state = "idle"]
  /\ heard' = <<>>

\* recognition.stop(): the recogniser goes on to deliver its final result
StopRecognition ==
  recognition' =
    IF recognition.state = "started"
    THEN [recognition EXCEPT !.state = "stopping"]
    ELSE recognition

\* startListening, and onstart.  start() throws while the recogniser has not
\* ended.
StartListening ==
  /\ PlannedMounted /\ ~listening
  /\ recognition.n < MaxRecognitions
  /\ IF recognition.state = "idle"
     THEN /\ recognition' = [state |-> "started", n |-> recognition.n + 1]
          /\ heard' = <<>>
          /\ listening' = TRUE
     ELSE UNCHANGED <<recognition, heard, listening>>
  /\ UNCHANGED <<qIndex, transcript, answers, feedbackState, route, outsidePlanned>>

\* onresult: the transcript is everything recognised since start(); each
\* recognition hears words of its own.  After stop() one final result follows.
RecognitionResult ==
  /\ PlannedMounted
  /\ \/ /\ recognition.state = "started"
        /\ Len(heard) < MaxHeard
        /\ heard' = Append(heard, recognition.n)
        /\ UNCHANGED recognition
     \/ /\ recognition.state = "stopping"
        /\ heard # <<>>
        /\ UNCHANGED heard
        /\ recognition' = [recognition EXCEPT !.state = "ending"]
  /\ transcript' = heard'
  /\ UNCHANGED <<qIndex, answers, listening, feedbackState, route, outsidePlanned>>

\* onend: after stop(), or when the recogniser ends on its own
RecognitionEnd ==
  /\ PlannedMounted
  /\ recognition.state # "idle"
  /\ recognition' = [recognition EXCEPT !.state = "idle"]
  /\ listening' = FALSE
  /\ UNCHANGED <<qIndex, transcript, answers, heard, feedbackState, route,
                 outsidePlanned>>

\* stopListening(true): the Stop button
StopAndCapture ==
  /\ PlannedMounted /\ listening
  /\ StopRecognition
  /\ listening' = FALSE
  /\ IF transcript # <<>>
     THEN /\ answers' = Append(answers, [question |-> activeQuestion, answer |-> transcript])
          /\ transcript' = <<>>
     ELSE UNCHANGED <<answers, transcript>>
  /\ UNCHANGED <<qIndex, heard, feedbackState, route, outsidePlanned>>

\* goNext: the 'Next question' / 'Finish and view feedback' button
GoNext ==
  /\ PlannedMounted
  /\ LET latest == IF transcript # <<>>
                   THEN Append(answers, [question |-> activeQuestion, answer |-> transcript])
                   ELSE answers
     IN  IF qIndex < Len(questions) - 1
         THEN /\ StopRecognition
              /\ listening' = FALSE
              /\ answers' = latest
              /\ transcript' = <<>>
              /\ qIndex' = qIndex + 1
              /\ UNCHANGED <<heard, feedbackState, route>>
         ELSE /\ route' = "/feedback"
              /\ feedbackState' = [answers |-> latest]
              /\ UnmountPlannedPage
  /\ UNCHANGED outsidePlanned

\* the 'Replace job description' button
ReplaceJobDescription ==
  /\ PlannedMounted
  /\ route' = "/"
  /\ UnmountPlannedPage
  /\ UNCHANGED <<feedbackState, outsidePlanned>>

\* the effect on [extractedText, navigate]: without a job text the page leaves
LeaveWithoutJob ==
  /\ route = "/interview" /\ extractedText = <<>>
  /\ route' = "/"
  /\ UnmountPlannedPage
  /\ UNCHANGED <<feedbackState, outsidePlanned>>

\* the page was entered with Continue from the upload page: a file with text is
\* saved, and the extraction of a file selected after it may still be running
InitPlanned ==
  /\ route = "/interview"
  /\ InitInterviewState
  /\ localStorage = Null
  /\ \A sid \in Sids : sessions[sid].max_questions = 1
  /\ InitRetrieval
  /\ InitDerive
  /\ InitPlannedPage
  /\ fileName = Null
  /\ fileSize = Null
  /\ preview = <<>>
  /\ uploadError = Null
  /\ extracting = FALSE
  /\ \E file \in Files :
       /\ file.type \in SupportedTypes /\ file.readable
       /\ Trim(file.content) # <<>>
       /\ fileMeta = [name |-> file.name, size |-> file.size]
       /\ extractedText = cleanText(file.content)
       /\ \/ /\ extractions = {}
             /\ nSelections = 1
             /\ selectedFile = file.name
          \/ \E later \in Files :
               /\ extractions = {[id |-> 2, file |-> later, orphan |-> TRUE]}
               /\ nSelections = 2
               /\ selectedFile = later.name

NextPlanned ==
  \/ StartListening
  \/ RecognitionResult
  \/ RecognitionEnd
  \/ StopAndCapture
  \/ GoNext
  \/ ReplaceJobDescription
  \/ LeaveWithoutJob
  \/ ReadFileResolves
  \/ ReadFileRejects

SpecPlanned == InitPlanned /\ [][NextPlanned]_vars

----------------------------------------------------------------------------
(* Properties *)

\* C1: a submission whose answer is empty or only whitespace is rejected
\* before anything is changed: the step of handleSubmitAnswer leaves the
\* page's conversation history, question number and completion flag and the
\* engine's session as they were, sends no request, and only sets the error
\* message.
C1_BlankAnswerRejected ==
  [][(HandleSubmitAnswer /\ Trim(userAnswer) = <<>>) =>
       /\ UNCHANGED <<conversationHistory, questionNumber, isComplete, loading>>
       /\ UNCHANGED <<requests, nCalls, sessions, busy>>
       /\ error' = "Please provide an answer"]_vars

\* a whitespace-only answer was rejected on a page that shows a conversation
C1_Witness ==
  /\ Mounted
  /\ error = "Please provide an answer"
  /\ userAnswer = <<" ">>
  /\ conversationHistory # <<>>
  /\ requests = {}

\* C2: atomic turns.  When a pending start or submit call of the page ends
\* with an error, the page's conversation history and question number are what
\* they were when the call was made, and the engine's session is unchanged, so
\* a resubmitted answer is recorded once.
C2_AtomicTurn ==
  [][(loading /\ ~loading' /\ error' # Null) =>
       /\ conversationHistory' = atCall.history
       /\ questionNumber' = atCall.questionNumber
       /\ sessions' = sessions]_vars

\* C3: the question number shown on the page equals the number of question
\* items in its conversation history, and the engine's question_count equals
\* the number of question turns in the session's history.
C3_QuestionCountMatchesHistory ==
  /\ Mounted => questionNumber = CountType(conversationHistory, "question")
  /\ \A sid \in Sids :
       sessions[sid].question_count = CountType(sessions[sid].history, "question")

\* question and answer items alternate, starting with a question
Alternates(h) ==
  \A i \in 1..Len(h) : h[i].type = IF i % 2 = 1 THEN "question" ELSE "answer"

\* the conversation items of the page before the completion notice
PageTurns ==
  IF isComplete
  THEN SubSeq(conversationHistory, 1, Len(conversationHistory) - 1)
  ELSE conversationHistory

\* C4: in an interview whose start and submissions all succeeded, with
\* max_questions = N, the k-th submission completes the interview exactly when
\* k = N, questions and answers alternate starting with a question, and the
\* completed interview holds N questions and N answers, on the page and in the
\* engine.
C4_BudgetedInterview ==
  (allSucceeded /\ Mounted /\ questionNumber > 0) =>
    LET s == sessions[sessionId]
        N == s.max_questions
        k == CountType(conversationHistory, "answer")
    IN /\ Alternates(PageTurns)
       /\ k <= N
       /\ isComplete <=> (k = N /\ ~loading)
       /\ isComplete =>
            /\ CountType(conversationHistory, "question") = N
            /\ conversationHistory[Len(conversationHistory)] = CompleteItem
            /\ Len(conversationHistory) = 2 * N + 1
            /\ Alternates(s.history)
            /\ Len(s.history) = 2 * N

\* an interview of the largest budget was completed without a failed call
C4_Witness ==
  /\ allSucceeded /\ Mounted /\ isComplete
  /\ sessions[sessionId].max_questions = MaxQuestions
  /\ CountType(conversationHistory, "answer") = MaxQuestions

\* C5: question_count never exceeds max_questions, in the engine and in the
\* number the page shows; a generation call for a submission is in flight only
\* under the budget; a submission accepted when question_count = max_questions
\* appends the answer only, completes the session and leaves question_count
\* and the generation slot alone; the page then shows the completion notice
\* and adds no question.
C5_QuestionBudget ==
  /\ [](\A sid \in Sids :
          /\ sessions[sid].question_count <= sessions[sid].max_questions
          /\ busy[sid].op = "submit" =>
               sessions[sid].question_count < sessions[sid].max_questions)
  /\ []((Mounted /\ sessionId \in Sids) =>
          questionNumber <= sessions[sessionId].max_questions)
  /\ [][\A sid \in Sids :
          LET s == sessions[sid]
              t == sessions'[sid]
          IN (s.question_count = s.max_questions /\ t.history # s.history) =>
               /\ t.history = Append(s.history, t.history[Len(t.history)])
               /\ t.history[Len(t.history)].type = "answer"
               /\ t.status = "COMPLETED"
               /\ t.question_count = s.question_count
               /\ busy' = busy]_vars
  /\ [][(Mounted /\ isComplete' /\ ~isComplete) =>
          /\ conversationHistory' = Append(conversationHistory, CompleteItem)
          /\ questionNumber' = questionNumber
          /\ sessions'[sessionId].status = "COMPLETED"]_vars

\* the last answer of the budget was submitted: the session is completed with
\* question_count = max_questions and the page shows the completion view
C5_Witness ==
  /\ Mounted /\ isComplete
  /\ sessions[sessionId].status = "COMPLETED"
  /\ sessions[sessionId].question_count = sessions[sessionId].max_questions
  /\ questionNumber = sessions[sessionId].max_questions
  /\ sessions[sessionId].max_questions > 1

\* the status transitions of the session state machine
StatusTransitions ==
  { <<"INIT", "IN_PROGRESS">>, <<"IN_PROGRESS", "COMPLETED">>,
    <<"INIT", "TERMINATED">>, <<"IN_PROGRESS", "TERMINATED">> }

\* C6: a session's status changes only along INIT -> IN_PROGRESS -> COMPLETED
\* or to TERMINATED from INIT or IN_PROGRESS; once a session is COMPLETED or
\* TERMINATED no step changes its status, appends to its history, or sends a
\* further submit_answer for it.
C6_StatusMachine ==
  [][\A sid \in Sids :
       LET s == sessions[sid]
           t == sessions'[sid]
       IN /\ t.status # s.status => <<s.status, t.status>> \in StatusTransitions
          /\ s.status \in {"COMPLETED", "TERMINATED"} =>
               /\ t.status = s.status
               /\ t.history = s.history
               /\ \A req \in requests' \ requests :
                    ~(req.op = "submit" /\ req.sid = sid)]_vars

\* the start call of the mounted page returns in this step
StartReturns ==
  /\ Mounted /\ loading /\ conversationHistory = <<>>
  /\ Mounted' /\ ~loading'

\* C7: start succeeds only from INIT.  The first start appends exactly one
\* question, sets question_count to 1 and the status to IN_PROGRESS, in the
\* engine and on the page; a start that reaches a session that is no longer
\* INIT (the page mounted again with the stored session id) fails with
\* InvalidStateError, and a failed start leaves history, question_count and
\* status as they were.
C7_StartOnlyFromInit ==
  /\ [][\A sid \in Sids :
          LET s == sessions[sid]
              t == sessions'[sid]
          IN (t.status = "IN_PROGRESS" /\ s.status # "IN_PROGRESS") =>
               /\ s.status = "INIT"
               /\ Len(t.history) = 1
               /\ t.history[1].type = "question"
               /\ t.question_count = 1]_vars
  /\ [][(StartReturns /\ error' = Null) =>
          /\ sessions[sessionId].status = "INIT"
          /\ sessions'[sessionId].status = "IN_PROGRESS"
          /\ Len(conversationHistory') = 1
          /\ conversationHistory'[1].type = "question"
          /\ conversationHistory'[1].content = sessions'[sessionId].history[1].text
          /\ questionNumber' = 1]_vars
  /\ [][(StartReturns /\ sessions[sessionId].status # "INIT"
                       /\ busy[sessionId].op # "start") =>
          error' = "InvalidStateError"]_vars
  /\ [][(StartReturns /\ error' # Null) =>
          /\ conversationHistory' = <<>>
          /\ questionNumber' = 0
          /\ isComplete' = isComplete
          /\ sessions' = sessions]_vars

\* the page was mounted again with the stored session id, its start was
\* rejected with InvalidStateError, and the session is as the first start
\* left it
C7_Witness ==
  /\ Mounted /\ mountEpoch = 2 /\ ~loading
  /\ error = "InvalidStateError"
  /\ conversationHistory = <<>> /\ questionNumber = 0
  /\ sessions[sessionId].status = "IN_PROGRESS"
  /\ sessions[sessionId].question_count = 1
  /\ Len(sessions[sessionId].history) = 1

\* C8: end is idempotent.  A call of end moves a session that is INIT or
\* IN_PROGRESS to TERMINATED and changes nothing else of it; on a session that
\* is already terminal it changes nothing; every call is acknowledged
\* without an error, so calling end twice leaves the same state as calling it
\* once.
C8_EndIdempotent ==
  [][Len(endResults') > Len(endResults) =>
       /\ endResults' = Append(endResults, "ack")
       /\ \A sid \in Sids :
            LET s == sessions[sid]
                t == sessions'[sid]
            IN /\ t.status # s.status =>
                    /\ s.status \in {"INIT", "IN_PROGRESS"}
                    /\ t = [s EXCEPT !.status = "TERMINATED"]
               /\ s.status \in {"COMPLETED", "TERMINATED"} => t = s
       /\ \E sid \in Sids : sessions'[sid].status \in {"COMPLETED", "TERMINATED"}]_vars

\* end was called twice on a session that had started: both calls were
\* acknowledged and the session is TERMINATED with its history kept
C8_Witness ==
  /\ endResults = <<"ack", "ack">>
  /\ \E sid \in Sids :
       /\ sessions[sid].status = "TERMINATED"
       /\ sessions[sid].question_count > 0

\* the ordinals of a history are 1, 2, 3, ...
OrdinalsInOrder(h) == \A i \in 1..Len(h) : h[i].ordinal = i

\* C9: submit_answer calls on one session are serialized.  A turn is begun
\* only when no other turn of the session is being generated, and a turn being
\* generated is never replaced by another; each applied submission appends
\* its answer and then its question and adds exactly one to question_count,
\* so the engine's history always alternates question and answer with
\* ordinals in order and question_count equals its number of questions.
C9_SubmitsSerialized ==
  /\ [](\A sid \in Sids :
          LET s == sessions[sid] IN
          /\ Alternates(s.history)
          /\ OrdinalsInOrder(s.history)
          /\ s.question_count = CountType(s.history, "question"))
  /\ [][\A sid \in Sids :
          LET s == sessions[sid]
              t == sessions'[sid]
          IN /\ (busy[sid] # NoRequest /\ busy'[sid] # busy[sid]) =>
                  busy'[sid] = NoRequest
             /\ t.question_count \in {s.question_count, s.question_count + 1}
             /\ (s.question_count > 0 /\ t.question_count = s.question_count + 1) =>
                  /\ busy[sid].op = "submit" /\ busy'[sid] = NoRequest
                  /\ Len(t.history) = Len(s.history) + 2
                  /\ SubSeq(t.history, 1, Len(s.history)) = s.history
                  /\ t.history[Len(t.history) - 1].text = busy[sid].answer]_vars

\* two submit_answer calls on one session are in flight at once: the turn of
\* one is being generated while the other waits for it
C9_Witness ==
  \E sid \in Sids :
    /\ busy[sid].op = "submit"
    /\ \E req \in requests :
         /\ req.op = "submit" /\ req.sid = sid /\ req.epoch # busy[sid].epoch
    /\ sessions[sid].question_count < sessions[sid].max_questions - 1

\* the start and submit calls of a session that have not returned yet
InFlight(sid) ==
  {req \in requests : req.sid = sid} \cup ({busy[sid]} \ {NoRequest})

\* C10: at most one turn of a session is in flight: a submit_answer is
\* dispatched only when no earlier start or submit_answer of that session is
\* still waiting for its return.
C10_OneCallInFlight ==
  [][\A req \in requests' \ requests :
       req.op = "submit" => InFlight(req.sid) = {}]_vars

\* C11: the result of a call that was in flight when the interview was ended
\* is discarded.  A TERMINATED session is never changed (no question turn
\* appended, question_count not incremented), and once the user has ended the
\* interview with End Interview, a response that arrives late changes nothing
\* of what the browser presents: not the page state, not the route, not what
\* is spoken.
C11_LateResultDiscarded ==
  /\ [][\A sid \in Sids :
          sessions[sid].status = "TERMINATED" => sessions'[sid] = sessions[sid]]_vars
  /\ [][\A sid \in endedByUser :
          InFlight(sid)' # InFlight(sid) =>
            UNCHANGED <<pageVars, route, localStorage, utterance>>]_vars

\* C12: sessions are cleaned up on end.  The step in which the user ends an
\* interview with End Interview, and the step in which the interview is
\* completed on the page, make an end-session call, after which the session
\* is no longer live (INIT or IN_PROGRESS) in the session store.
C12_EndCallOnEnd ==
  [][(endedByUser' # endedByUser \/ (Mounted /\ isComplete' /\ ~isComplete)) =>
       /\ Len(endResults') = Len(endResults) + 1
       /\ \A sid \in endedByUser' \ endedByUser :
            sessions'[sid].status \notin {"INIT", "IN_PROGRESS"}]_vars

\* two question turns of the history have the same normalized text
HasRepeatedQuestion(h) ==
  \E i, j \in 1..Len(h) :
    /\ i < j
    /\ h[i].type = "question" /\ h[j].type = "question"
    /\ Normalize(h[i].text) = Normalize(h[j].text)

C14_RegenerateOnce ==
  /\ [](\A sid \in Sids :
          /\ genCalls[sid] \in 0..MaxGenerationCalls
          /\ genCalls[sid] > 0 <=> busy[sid] # NoRequest)
  /\ [][\A sid \in Sids :
          (genCalls[sid] > 0 /\ genCalls'[sid] > genCalls[sid]) =>
            /\ genCalls[sid] = 1 /\ genCalls'[sid] = 2
            /\ busy'[sid] = busy[sid]
            /\ sessions'[sid] = sessions[sid]]_vars
  /\ [][\A sid \in Sids :
          (genCalls[sid] = MaxGenerationCalls /\ <<busy, genCalls, sessions>>' # <<busy, genCalls, sessions>>
             /\ sessions'[sid].status = sessions[sid].status) =>
            /\ busy'[sid] = NoRequest /\ genCalls'[sid] = 0
            /\ \/ /\ sessions'[sid].question_count = sessions[sid].question_count + 1
                  /\ Len(sessions'[sid].history) = Len(sessions[sid].history) + 2
               \/ /\ sessions'[sid] = sessions[sid]
                  /\ (Mounted /\ busy[sid].epoch = mountEpoch
                        /\ sessions[sid].status # "TERMINATED") =>
                       error' = "GenerationUnavailableError"]_vars

\* the provider returned a duplicate for the second question and the engine
\* has issued the one regeneration of that turn
C14_Witness ==
  \E sid \in Sids :
    /\ genCalls[sid] = MaxGenerationCalls
    /\ busy[sid].op = "submit"
    /\ sessions[sid].question_count = 1

\* the upload of the file is rejected: no extractor for its type, the
\* extractor fails, or the extracted text is empty or only whitespace
Rejected(file) ==
  \/ file.type \notin SupportedTypes
  \/ ~file.readable
  \/ Trim(file.content) = <<>>

\* the extraction e is in flight now and no longer after the step
Settles(e) == \A d \in extractions' : d.id # e.id

----------------------------------------------------------------------------
\* the text of a chunk without its first n characters
DropLeading(text, n) == SubSeq(text, n + 1, Len(text))

\* the first chunk followed by every later chunk minus its leading overlap
RECURSIVE NonOverlapping(_, _)
NonOverlapping(chs, overlap) ==
  IF Len(chs) = 1 THEN chs[1].text
  ELSE NonOverlapping(SubSeq(chs, 1, Len(chs) - 1), overlap)
         \o DropLeading(chs[Len(chs)].text, overlap)

----------------------------------------------------------------------------
\* the last Retrieval Result is the top k of the index for the last query
RankedTopK ==
  LET ids == DOMAIN index
      v == lastQuery.vector
      InResult(id) == \E i \in 1..Len(retrieval) : retrieval[i].chunk = id
  IN  /\ Len(retrieval) <= lastQuery.k
      /\ Len(retrieval) = Min(lastQuery.k, Cardinality(ids))
      /\ \A i \in 1..Len(retrieval) :
           /\ retrieval[i].chunk \in ids
           /\ ScoreEqual(retrieval[i].score, Cosine(index[retrieval[i].chunk], v))
      /\ \A i, j \in 1..Len(retrieval) :
           i < j =>
             /\ ~ScoreLess(retrieval[i].score, retrieval[j].score)
             /\ ScoreEqual(retrieval[i].score, retrieval[j].score)
                  => retrieval[i].chunk < retrieval[j].chunk
      /\ \A id \in ids :
           ~InResult(id) =>
             \A i \in 1..Len(retrieval) :
               /\ ~ScoreLess(retrieval[i].score, Cosine(index[id], v))
               /\ ScoreEqual(retrieval[i].score, Cosine(index[id], v))
                    => retrieval[i].chunk < id

\* C18: query(vector, k) returns at most k (chunk, score) pairs in descending
\* score order, ties by lower chunk ordinal, which are the k best-scoring chunks
\* of the index; a repeated call with the same index and query vector returns
\* the same ordered result
C18_QueryTopK ==
  /\ []((indexState = "built" /\ lastQuery # NoQuery) => RankedTopK)
  /\ [][(lastQuery # NoQuery /\ lastQuery' = lastQuery /\ index' = index)
          => retrieval' = retrieval]_vars

\* three chunks, two of them tied at the best score: the query for 2 returns the
\* tied chunks in document order and leaves out the third
C18_Witness ==
  /\ indexState = "built"
  /\ index = <<<<2, 2>>, <<1, 0>>, <<1, 1>>>>
  /\ lastQuery = [vector |-> <<1, 1>>, k |-> 2]
  /\ Len(retrieval) = 2
  /\ retrieval[1].chunk = 1
  /\ retrieval[2].chunk = 3

----------------------------------------------------------------------------
IsPrefix(h, g) == Len(h) <= Len(g) /\ SubSeq(g, 1, Len(h)) = h

\* C19: a session's history is append-only.  No step removes, reorders or
\* rewrites a turn of the engine's history or, while the page stays mounted, an
\* item of the page's conversation; turn ordinals are strictly increasing in
\* history order, so none is used twice, also after failed or rejected calls.
C19_HistoryAppendOnly ==
  /\ [](\A sid \in Sids :
          \A i, j \in 1..Len(sessions[sid].history) :
            i < j => sessions[sid].history[i].ordinal < sessions[sid].history[j].ordinal)
  /\ [][\A sid \in Sids : IsPrefix(sessions[sid].history, sessions'[sid].history)]_vars
  /\ [][(Mounted /\ Mounted' /\ mountEpoch' = mountEpoch)
          => IsPrefix(conversationHistory, conversationHistory')]_vars

\* a submission was rejected, and a later one appended its answer and the next
\* question after the turns already there
C19_Witness ==
  /\ Mounted
  /\ ~allSucceeded
  /\ sessionId # Null
  /\ Len(sessions[sessionId].history) = 3
  /\ sessions[sessionId].history[3].ordinal = 3
  /\ Len(conversationHistory) = 4
  /\ conversationHistory[4].type = "question"

----------------------------------------------------------------------------
\* what the job context holds when it matches the selection: the cleaned text and
\* the name of the selected file, nothing when no file is selected or the
\* file's extraction fails
ExpectedExtraction(name) ==
  IF name = Null \/ \E file \in Files : file.name = name /\ Rejected(file)
  THEN [text |-> <<>>, name |-> Null]
  ELSE LET file == CHOOSE f \in Files : f.name = name
       IN  [text |-> cleanText(file.content), name |-> name]

\* C20: on the upload page, once no extraction is in flight, the saved
\* extraction matches the file shown as selected: it is the text of the file
\* selected last, and it is empty when the selection was removed or that file's
\* extraction failed, whatever the order of selections, removals and completions
C20_ExtractionMatchesSelection ==
  (UploadMounted /\ extractions = {}) =>
    /\ extractedText = ExpectedExtraction(selectedFile).text
    /\ fileMeta.name = ExpectedExtraction(selectedFile).name
    /\ fileName # Null => fileName = selectedFile

----------------------------------------------------------------------------
\* the calls of handleFileObject of the mounted page that still wait for readFile
PendingExtractions == {e \in extractions : ~e.orphan}

\* C21: on the upload page the extracting flag is true whenever at least one
\* file extraction is in flight, so Continue is never enabled while an
\* extraction is still running, also when a second file is selected before the
\* first extraction finishes
C21_ExtractingWhileInFlight ==
  (UploadMounted /\ PendingExtractions # {}) => (extracting /\ ~CanContinue)

----------------------------------------------------------------------------
\* C22: when the extraction of a selected file fails (unsupported type, empty
\* text, or extractor error), the step that handles the failure clears the job
\* context: extractedText, summary and file meta are empty, the preview is
\* empty, an error message is set (the one of the failure for an unsupported
\* type and for empty text) and Continue is disabled, whatever was extracted
\* before
C22_FailureClearsJob ==
  [][\A e \in PendingExtractions :
       (UploadMounted /\ Settles(e) /\ Rejected(e.file)) =>
         /\ extractedText' = <<>>
         /\ summary' = <<>>
         /\ fileMeta' = [name |-> Null, size |-> 0]
         /\ preview' = <<>>
         /\ uploadError' # Null
         /\ e.file.type \notin SupportedTypes =>
              uploadError' = "Unsupported file type. Please upload PDF, DOCX or TXT."
         /\ (e.file.type \in SupportedTypes /\ e.file.readable) =>
              uploadError' = "Could not extract text. Try a different file."
         /\ ~extracting'
         /\ ~CanContinue']_vars

\* a.txt and then the whitespace-only c.txt were selected and both extractions
\* ended: the page shows c.txt with the error and nothing is saved
C22_Witness ==
  /\ UploadMounted
  /\ nSelections = 2
  /\ extractions = {}
  /\ fileName = "c.txt"
  /\ uploadError = "Could not extract text. Try a different file."
  /\ extractedText = <<>>
  /\ summary = <<>>
  /\ preview = <<>>
  /\ ~CanContinue

----------------------------------------------------------------------------
\* C23: the interview page sends start-interview and next-question requests
\* only for the session id that was in local storage when it mounted.  With no
\* stored id it goes to the upload page and sends nothing; the start request
\* carries the stored id, the page keeps that id while it is mounted, and every
\* next-question request carries it.
C23_RequestsCarryStoredId ==
  /\ [](Mounted => sessionId \in Sids)
  /\ [][(~Mounted /\ localStorage = Null /\ route' # route)
          => (route' = "/" /\ requests' = requests /\ nCalls' = nCalls)]_vars
  /\ [][(Mounted /\ Mounted' /\ mountEpoch' = mountEpoch)
          => sessionId' = sessionId]_vars
  /\ [][\A req \in requests' \ requests :
          /\ nCalls' = nCalls + 1
          /\ req.op = "start" =>
               (~Mounted /\ Mounted' /\ req.sid = localStorage /\ sessionId' = req.sid)
          /\ req.op = "submit" =>
               (Mounted /\ Mounted' /\ req.sid = sessionId /\ sessionId' = sessionId)]_vars

\* the page mounted with the stored id s1, was started, and a next-question
\* request for s1 is on its way
C23_Witness ==
  /\ Mounted
  /\ sessionId = "s1"
  /\ conversationHistory # <<>>
  /\ \E req \in requests : req.op = "submit" /\ req.sid = "s1" /\ req.epoch = mountEpoch

----------------------------------------------------------------------------
\* the pending start or submit call of the mounted page returns in this step
PageCallReturns ==
  /\ Mounted /\ Mounted' /\ mountEpoch' = mountEpoch
  /\ atCall # NoCall /\ atCall' = NoCall

\* C24: on the interview page loading is true exactly while a start or submit
\* call of the page is pending, and the step in which the call resolves or
\* rejects sets it to false.  A rejected call (the session is as before) sets
\* an error message and keeps the typed answer; a resolved call (the session
\* advanced) leaves no error and an empty answer.
C24_LoadingEndsWithCall ==
  /\ [](Mounted => (loading <=> atCall # NoCall))
  /\ [][PageCallReturns =>
          /\ loading /\ ~loading'
          /\ IF sessions'[sessionId] = sessions[sessionId]
             THEN error' # Null /\ userAnswer' = userAnswer
             ELSE error' = Null /\ userAnswer' = <<>>]_vars

\* a submitted answer was rejected: the input is enabled again, the error is
\* shown and the answer is still in the input
C24_Witness ==
  /\ Mounted
  /\ ~loading
  /\ atCall = NoCall
  /\ error \notin {Null, "Please provide an answer"}
  /\ Trim(userAnswer) # <<>>
  /\ Len(conversationHistory) >= 2

----------------------------------------------------------------------------
\* the answers after the transcript, when there is one, was recorded under the
\* question shown
WithTranscript ==
  IF transcript # <<>>
  THEN Append(answers, [question |-> activeQuestion, answer |-> transcript])
  ELSE answers

\* C25: on the planned-question page qIndex stays within
\* 0 .. questions.length - 1; it changes only by Next raising it by exactly one
\* while it is below the last index; the page goes to /feedback only from the
\* last question, with the answers and the transcript of that question
C25_QIndexWithinQuestions ==
  /\ [](PlannedMounted => qIndex \in 0..(Len(questions) - 1))
  /\ [][(PlannedMounted /\ PlannedMounted' /\ qIndex' # qIndex) =>
          (qIndex < Len(questions) - 1 /\ qIndex' = qIndex + 1)]_vars
  /\ [][(GoNext /\ qIndex < Len(questions) - 1) =>
          (qIndex' = qIndex + 1 /\ route' = route)]_vars
  /\ [][(route = "/interview" /\ route' = "/feedback") =>
          /\ qIndex = Len(questions) - 1
          /\ feedbackState' = [answers |-> WithTranscript]]_vars

\* C26: on the planned-question page every entry of answers has a non-empty
\* answer and the question shown when it was captured; entries are only
\* appended, one at a time; the words of one recognition are recorded at most
\* once; Next with an empty transcript adds no entry
C26_AnswersRecordedOnce ==
  /\ [](\A i \in 1..Len(answers) : answers[i].answer # <<>>)
  /\ [](\A i, j \in 1..Len(answers) :
          i < j => answers[i].answer[1] # answers[j].answer[1])
  /\ [][(PlannedMounted /\ PlannedMounted') =>
          \/ answers' = answers
          \/ /\ transcript # <<>>
             /\ answers' = Append(answers, [question |-> activeQuestion,
                                            answer |-> transcript])]_vars
  /\ [][(GoNext /\ transcript = <<>> /\ PlannedMounted') => answers' = answers]_vars

----------------------------------------------------------------------------
\* the prompts of the keywords contained in the lower-cased text, in table order
KeywordPrompts(text) ==
  LET Contained(kq) == includes(toLowerCase(text), kq.keyword)
      hits == SelectSeq(keywordQuestions, Contained)
  IN  [i \in 1..Len(hits) |-> hits[i].prompt]

\* C27: deriveQuestions(text) returns between 3 and 8 pairwise distinct
\* questions: the three base questions in their order, then the prompts of the
\* keywords contained in the lower-cased text in table order, then the
\* stakeholder question when the cleaned text is longer than 600 characters and
\* does not contain 'stakeholder', truncated to 8; it is a function of the text
C27_DerivedQuestions ==
  derived # NotDerived =>
    LET stakeholder ==
          IF Len(cleanText(deriveText)) > 600
             /\ ~includes(toLowerCase(deriveText), StakeholderKeyword)
          THEN <<StakeholderQuestion>> ELSE <<>>
        expected == base \o KeywordPrompts(deriveText) \o stakeholder
    IN  /\ Len(derived) >= 3 /\ Len(derived) <= 8
        /\ \A i, j \in 1..Len(derived) : i # j => derived[i] # derived[j]
        /\ SubSeq(derived, 1, 3) = base
        /\ derived = SubSeq(expected, 1, Min(8, Len(expected)))

\* a text of 601 cleaned characters with React, NODE, python and html: the base
\* questions, four keyword prompts and the stakeholder question
C27_Witness ==
  /\ deriveText = PadTo(JoinWords({1, 2, 3, 4}, 1), 601)
  /\ Len(derived) = 8
  /\ derived[4] = keywordQuestions[1].prompt
  /\ derived[7] = keywordQuestions[4].prompt
  /\ derived[8] = StakeholderQuestion

====
